---- MODULE Spec2Model ----
(***************************************************************************)
(* Model of the call-center query agent:                                   *)
(*   - src/src/tools/sql_tools.py : validate_sql, run_sql_query            *)
(*   - src/main.py                : query() with retry and backoff (REPL)  *)
(*   - src/app.py                 : POST /query, DELETE /session/{id}      *)
(*                                                                         *)
(* Text is modelled as a sequence of lexemes (maximal words, whitespace,   *)
(* punctuation), so that case folding, trimming, substring search and the  *)
(* regular expressions of the validator are computed, not assumed.         *)
(***************************************************************************)
EXTENDS Integers, Sequences, FiniteSets, TLC

\* ------------------------------------------------------------------ bounds
\* number of run_sql_query calls recorded in one exploration
MaxCalls == 2

\* number of /query requests in one exploration
MaxRequests == 2

\* number of DELETE /session requests in one exploration
MaxClears == 2

\* ------------------------------------------------------- program constants
\* rows[:50] / len(rows) > 50 in run_sql_query
PreviewLimit == 50

\* -------------------------------------------------------------- the state
VARIABLES
    schemaCached,   \* lru_cache of get_schema holds a value
    calls,          \* the tool calls made so far: argument, verdict, what was executed
    result,         \* the text the last call returned
    fetched,        \* what execute_sql did in the last call, if it was reached
    storeLog        \* the strings the data store's execute_sql has received

toolVars == <<schemaCached, calls, result, fetched, storeLog>>

VARIABLES
    rPc,         \* where query() is: idle, Generating, Evaluating, Retrying, Done, Failed
    question,    \* its argument
    attempt,     \* the loop variable
    last_error,  \* last_error (<<>> is None)
    output,      \* output of the current attempt
    evalPrompt,  \* what the evaluation stage was last given
    rAnswer,     \* the value returned
    rError,      \* the exception raised to the caller
    trace        \* history of the stage calls, their outcomes and the waits

replVars == <<rPc, question, attempt, last_error, output, evalPrompt, rAnswer, rError, trace>>

VARIABLES
    hPc,          \* per request: new, sql_agent_run, evaluator_run, responded, failed, cancelled
    hReq,         \* per request: the QueryRequest received
    hSid,         \* per request: session_id as resolved at line 85
    hCtx,         \* per request: the session items its generation stage ran with
    hOut,         \* per request: output (line 104)
    hEvalCtx,     \* per request: the session items its evaluation stage ran with
    hResp,        \* per request: the QueryResponse returned or the HTTPException raised
    hDoneBefore,  \* per request: the exchanges completed and not cleared when it arrived
    store,        \* the session database: session id -> its turns, for the ids that have any
    wiped,        \* requests of which some turn has been removed by a clear
    clears,       \* number of DELETE requests served
    hLast         \* the last operation served by app.py and, for a clear, its response

httpVars == <<hPc, hReq, hSid, hCtx, hOut, hEvalCtx, hResp, hDoneBefore, store, wiped, clears, hLast>>

VARIABLE program  \* the entry point that was started: main.py (REPL) or app.py (service)

\* what each component leaves alone
notTool == <<replVars, httpVars, program>>

notRepl == <<toolVars, httpVars, program>>

notHttp == <<toolVars, replVars, program>>

\* ------------------------------------------------------------ text helpers
\* whitespace lexemes (what str.strip() removes and \s matches)
IsSpace(t) == t \in {" ", "\n"}

\* lexemes made only of \w characters
IsWord(t) ==
    t \in {"SELECT", "select", "FROM", "from", "JOIN", "WHERE", "TABLE",
           "calls", "CALLS", "Employees", "fake_table", "DROP", "drop",
           "DELETE", "created_at", "notes", "x", "home"}

\* str.upper() on one lexeme
UpperTok(t) ==
    CASE t = "select"     -> "SELECT"
      [] t = "from"       -> "FROM"
      [] t = "calls"      -> "CALLS"
      [] t = "Employees"  -> "EMPLOYEES"
      [] t = "fake_table" -> "FAKE_TABLE"
      [] t = "drop"       -> "DROP"
      [] t = "created_at" -> "CREATED_AT"
      [] t = "notes"      -> "NOTES"
      [] t = "x"          -> "X"
      [] OTHER            -> t

\* str.lower() on one lexeme
LowerTok(t) ==
    CASE t = "SELECT"    -> "select"
      [] t = "FROM"      -> "from"
      [] t = "JOIN"      -> "join"
      [] t = "WHERE"     -> "where"
      [] t = "TABLE"     -> "table"
      [] t = "CALLS"     -> "calls"
      [] t = "Employees" -> "employees"
      [] t = "DROP"      -> "drop"
      [] t = "DELETE"    -> "delete"
      [] OTHER           -> t

\* sql.upper()
Upper(s) == [i \in DOMAIN s |-> UpperTok(s[i])]

RECURSIVE LStrip(_)
LStrip(s) == IF s # <<>> /\ IsSpace(Head(s)) THEN LStrip(Tail(s)) ELSE s

RECURSIVE RStrip(_)
RStrip(s) ==
    IF s # <<>> /\ IsSpace(s[Len(s)]) THEN RStrip(SubSeq(s, 1, Len(s) - 1)) ELSE s

\* str.strip()
Strip(s) == RStrip(LStrip(s))

\* str.rstrip(";"): drops every trailing ';' and nothing else
RECURSIVE RStripSemi(_)
RStripSemi(s) ==
    IF s # <<>> /\ s[Len(s)] = ";" THEN RStripSemi(SubSeq(s, 1, Len(s) - 1)) ELSE s

\* the upper-cased lexeme T has the text kw inside it
TokHas(T, kw) ==
    \/ T = kw
    \/ T = "CREATED_AT" /\ kw = "CREATE"

\* kw in s, for s already upper-cased; ";--" spans two lexemes
Contains(s, kw) ==
    IF kw = ";--"
    THEN \E i \in 1..(Len(s) - 1) : s[i] = ";" /\ s[i + 1] = "--"
    ELSE \E i \in DOMAIN s : TokHas(s[i], kw)

\* str.startswith("SELECT") on an upper-cased, stripped text
StartsWithSelect(s) == s # <<>> /\ Head(s) = "SELECT"

\* re.sub(r"'[^']*'", "", sql): leftmost pairs of quotes and what is between
\* them are removed; a quote with no later partner stays
RECURSIVE StripLiterals(_)
StripLiterals(s) ==
    IF s = <<>> THEN <<>>
    ELSE IF Head(s) = "'" /\ \E j \in 2..Len(s) : s[j] = "'"
         THEN LET j == CHOOSE k \in 2..Len(s) :
                           s[k] = "'" /\ \A m \in 2..(k - 1) : s[m] # "'"
              IN StripLiterals(SubSeq(s, j + 1, Len(s)))
         ELSE <<Head(s)>> \o StripLiterals(Tail(s))

\* re.findall(r'\b(?:FROM|JOIN)\s+(\w+)', sql, re.IGNORECASE), scanning from i
RECURSIVE FindTables(_, _)
FindTables(s, i) ==
    IF i > Len(s) THEN <<>>
    ELSE IF UpperTok(s[i]) \in {"FROM", "JOIN"}
            /\ i + 1 <= Len(s) /\ IsSpace(s[i + 1])
         THEN LET k == CHOOSE n \in (i + 2)..(Len(s) + 1) :
                           /\ \A m \in (i + 1)..(n - 1) : IsSpace(s[m])
                           /\ (n = Len(s) + 1 \/ ~IsSpace(s[n]))
              IN IF k <= Len(s) /\ IsWord(s[k])
                 THEN <<s[k]>> \o FindTables(s, k + 1)
                 ELSE FindTables(s, i + 1)
         ELSE FindTables(s, i + 1)

\* ------------------------------------------------------------ the validator
\* dangerous = [...] in list order
Dangerous ==
    <<"INSERT", "UPDATE", "DELETE", "DROP", "CREATE", "ALTER",
      "TRUNCATE", "EXEC", "--", ";--">>

\* get_schema().keys() of the call-log database
SchemaTables == {"calls", "employees", "customers", "call_types"}

\* rules 1-3 as they would be if rule 3 looked at the text with its literals
Rules123Unstripped(sql) ==
    LET sql_upper == Strip(Upper(sql))
        hits      == {i \in DOMAIN Dangerous : Contains(sql_upper, Dangerous[i])}
        statement == RStripSemi(Strip(sql))
    IN IF ~StartsWithSelect(sql_upper)
       THEN <<FALSE, <<"Only SELECT queries allowed">>>>
       ELSE IF hits # {}
       THEN <<FALSE, <<"Blocked keyword: ",
                       Dangerous[CHOOSE i \in hits : \A j \in hits : i <= j]>>>>
       ELSE IF \E i \in DOMAIN statement : statement[i] = ";"
       THEN <<FALSE, <<"Multiple statements not allowed">>>>
       ELSE <<TRUE, <<>>>>

\* the first three rules of validate_sql, in order; <<TRUE, ...>> when all pass
Rules123(sql) ==
    LET sql_upper == Strip(Upper(sql))
        hits      == {i \in DOMAIN Dangerous : Contains(sql_upper, Dangerous[i])}
        sql_no_strings == StripLiterals(sql)
        statement == RStripSemi(Strip(sql_no_strings))
    IN IF ~StartsWithSelect(sql_upper)
       THEN <<FALSE, <<"Only SELECT queries allowed">>>>
       ELSE IF hits # {}
       THEN <<FALSE, <<"Blocked keyword: ",
                       Dangerous[CHOOSE i \in hits : \A j \in hits : i <= j]>>>>
       ELSE IF \E i \in DOMAIN statement : statement[i] = ";"
       THEN <<FALSE, <<"Multiple statements not allowed">>>>
       ELSE <<TRUE, <<>>>>

\* get_schema() as it would be reached if it were called before rule 1
NeedsSchemaAlways(sql) == TRUE

\* validate_sql consults get_schema() only when rules 1-3 pass
NeedsSchema(sql) == Rules123(sql)[1]

\* validate_sql(sql) -> (accepted, reason), with get_schema() returning
validate_sql(sql) ==
    LET first == Rules123(sql)
    IN IF ~first[1] THEN first
    ELSE LET found_tables == FindTables(sql, 1)
             valid_tables == {LowerTok(t) : t \in SchemaTables}
             bad == {i \in DOMAIN found_tables :
                         LowerTok(found_tables[i]) \notin valid_tables}
         IN IF bad # {}
            THEN <<FALSE, <<"Unknown table: ",
                            found_tables[CHOOSE i \in bad : \A j \in bad : i <= j]>>>>
            ELSE <<TRUE, <<"Valid">>>>

\* ------------------------------------------------------- the query tool
\* candidate query strings handed to run_sql_query by the generation stage
Candidates ==
    { <<"SELECT", " ", "*", " ", "FROM", " ", "calls">>,
      <<"select", " ", "*", " ", "from", " ", "CALLS">>,
      <<" ", "SELECT", " ", "x", " ", "FROM", " ", "calls", " ", "JOIN", " ", "Employees">>,
      <<"SELECT", " ", "*", " ", "FROM", " ", "calls", ";", " ",
        "DROP", " ", "TABLE", " ", "calls", ";">>,
      <<"DELETE", " ", "FROM", " ", "calls", " ", "WHERE", " ", "x">>,
      <<"SELECT", " ", "*", " ", "FROM", " ", "fake_table">>,
      <<"SELECT", " ", "*", " ", "FROM", " ", "calls", " ", "WHERE", " ",
        "notes", "=", "'", "drop", "'">>,
      <<"SELECT", " ", "*", " ", "FROM", " ", "calls", " ", "WHERE", " ",
        "notes", "=", "'", ";", "'">>,
      <<"SELECT", " ", "created_at", " ", "FROM", " ", "calls">>,
      <<"SELECT", " ", "*", " ", "FROM", " ", "calls", ";">>,
      <<"SELECT", " ", "*", " ", "FROM", " ", "calls", ";", " ", "SELECT", " ", "x">>,
      <<"SELECT", " ", "x", " ", "FROM", " ", "calls", " ", "--", "x">>,
      <<"SELECT", " ", "notes", " ", "FROM", " ", "calls", " ", "WHERE", " ", "x">>,
      <<"SELECT", " ", "*", " ", "FROM", " ", "calls", ",", " ", "fake_table">>,
      <<"SELECT", " ", "*", " ", "FROM", " ", "calls", " ", "WHERE", " ",
        "notes", "=", "'", "from", " ", "home", "'">>,
      <<>> }

\* validate_sql on each candidate, and whether it reads the schema, tabulated
Verdict == [c \in Candidates |-> validate_sql(c)]

ReadsSchema == [c \in Candidates |-> NeedsSchema(c)]

\* what execute_sql does with an accepted query: the store raises, or returns n rows
RowCounts == {0, 1, PreviewLimit, PreviewLimit + 1}

DbOutcomes ==
    {[kind |-> "error", n |-> 0]} \cup {[kind |-> "rows", n |-> k] : k \in RowCounts}

\* execute_sql was not reached
NoFetch == [kind |-> "none", n |-> 0]

Line(tag, n, text) == [tag |-> tag, n |-> n, text |-> text]

Min(a, b) == IF a <= b THEN a ELSE b

\* the text as it would be built with len(rows) >= 50 at line 83
FormatRowsOffByOne(n) ==
    IF n = 0 THEN <<Line("No results found.", 0, <<>>)>>
    ELSE <<Line("header", 0, <<>>), Line("dashes", 0, <<>>)>>
         \o [i \in 1..Min(n, PreviewLimit) |-> Line("row", i, <<>>)]
         \o (IF n >= PreviewLimit
             THEN <<Line("... and more rows", n - PreviewLimit, <<>>)>>
             ELSE <<>>)
         \o <<Line("Total: row(s)", n, <<>>)>>

\* the text run_sql_query builds from the rows (lines 72-90)
FormatRows(n) ==
    IF n = 0 THEN <<Line("No results found.", 0, <<>>)>>
    ELSE <<Line("header", 0, <<>>), Line("dashes", 0, <<>>)>>
         \o [i \in 1..Min(n, PreviewLimit) |-> Line("row", i, <<>>)]
         \o (IF n > PreviewLimit
             THEN <<Line("... and more rows", n - PreviewLimit, <<>>)>>
             ELSE <<>>)
         \o <<Line("Total: row(s)", n, <<>>)>>

\* f"ERROR: {detail}"
ErrorText(detail) == <<Line("ERROR: ", 0, detail)>>

StartsWithError(text) == text # <<>> /\ text[1].tag = "ERROR: "

\* One call of the tool. schemaOk: get_schema() returns (from its cache, or by
\* reading the database); db: what the store does if execute_sql is reached.
\* The outcome records the verdicts validate_sql returned, the strings handed
\* to execute_sql, the text returned, and whether an exception left the call.
run_sql_query_unguarded(sql_query, schemaOk, db) ==
    IF ~schemaOk /\ ReadsSchema[sql_query]
    THEN [sql |-> sql_query, consulted |-> TRUE, verdicts |-> <<>>, executed |-> <<>>,
          result |-> <<>>, raised |-> TRUE]
    ELSE [sql |-> sql_query, consulted |-> ReadsSchema[sql_query],
          verdicts |-> <<Verdict[sql_query]>>,
          executed |-> <<sql_query>>,
          result |-> IF db.kind = "error"
                     THEN ErrorText(<<"no such column: x">>)
                     ELSE FormatRows(db.n),
          raised |-> FALSE]

run_sql_query(sql_query, schemaOk, db) ==
    IF ~schemaOk /\ ReadsSchema[sql_query]
    THEN \* get_schema() raises inside validate_sql, outside the try block
         [sql |-> sql_query, consulted |-> TRUE, verdicts |-> <<>>, executed |-> <<>>,
          result |-> <<>>, raised |-> TRUE]
    ELSE LET v == Verdict[sql_query]
             c == ReadsSchema[sql_query]
         IN IF ~v[1]
            THEN [sql |-> sql_query, consulted |-> c, verdicts |-> <<v>>,
                  executed |-> <<>>,
                  result |-> ErrorText(v[2]), raised |-> FALSE]
            ELSE [sql |-> sql_query, consulted |-> c, verdicts |-> <<v>>,
                  executed |-> <<sql_query>>,
                  result |-> IF db.kind = "error"
                             THEN ErrorText(<<"no such column: x">>)
                             ELSE FormatRows(db.n),
                  raised |-> FALSE]


ToolInit ==
    /\ schemaCached = FALSE
    /\ calls = <<>>
    /\ result = <<>>
    /\ fetched = NoFetch
    /\ storeLog = <<>>

\* what the history keeps of a call: all but the text, of which it keeps
\* whether it starts with "ERROR: "
Summary(out) ==
    [sql |-> out.sql, consulted |-> out.consulted, verdicts |-> out.verdicts,
     executed |-> out.executed, raised |-> out.raised,
     error |-> StartsWithError(out.result)]

\* the generation stage invokes the tool on a candidate string
RunSqlQuery ==
    \E sql \in Candidates, loads \in BOOLEAN, db \in DbOutcomes :
        /\ Len(calls) < MaxCalls
        /\ LET schemaOk == schemaCached \/ loads
               out == run_sql_query(sql, schemaOk, db)
           IN /\ calls' = Append(calls, Summary(out))
              /\ result' = out.result
              /\ fetched' = IF out.executed # <<>> THEN db ELSE NoFetch
              /\ storeLog' = storeLog \o out.executed
              /\ schemaCached' = (schemaCached \/ (schemaOk /\ ReadsSchema[sql]))
    /\ UNCHANGED notTool

\* the agent run that made the calls ends; a new run starts with the cache kept
ToolRunEnds ==
    /\ calls # <<>>
    /\ calls' = <<>>
    /\ result' = <<>>
    /\ fetched' = NoFetch
    /\ storeLog' = <<>>
    /\ UNCHANGED schemaCached
    /\ UNCHANGED notTool

ToolNext == RunSqlQuery \/ ToolRunEnds


\* ------------------------------------------- the REPL orchestrator (main.py)
\* final_output of a generation-stage run: None, or a text; "ERROR:" is one lexeme
GenFinalOutputs ==
    { [isNone |-> TRUE,  text |-> <<>>],
      [isNone |-> FALSE, text |-> <<"total", "50005">>],
      [isNone |-> FALSE, text |-> <<"ERROR:", "no such column: x">>],
      [isNone |-> FALSE, text |-> <<"3 calls were marked ", "ERROR:", " dropped">>] }

\* final_output of an evaluation-stage run
EvalAnswers == { <<"50005 calls.">>, <<"The query failed.">> }

\* exceptions a Runner.run call may raise
StageErrors == { <<"APIConnectionError">>, <<"MaxTurnsExceeded">> }

Questions == { "q1", "q2" }

\* sql_result.final_output or ""
OrEmpty(fo) == IF fo.isNone \/ fo.text = <<>> THEN <<>> ELSE fo.text

\* "ERROR:" in output
HasErrorMarker(out) == \E i \in DOMAIN out : out[i] = "ERROR:"

\* query(question, max_retries = 2)
max_retries == 2

\* the factor of the backoff, (attempt + 1) * 2
BaseDelay == 2

\* line 47: an output carrying the marker is turned into an exception
ErrorIsRaisedAlways(out, a) == HasErrorMarker(out)

ErrorIsRaisedNever(out, a) == FALSE

ErrorIsRaised(out, a) == HasErrorMarker(out) /\ a < max_retries

\* line 64: the except block waits and lets the loop go on
RetriesLeftNever(a) == FALSE

RetriesLeftOffByOne(a) == a <= max_retries

RetriesLeftOnlyFirst(a) == a < max_retries - 1

RetriesLeft(a) == a < max_retries

\* line 65
WaitTimeFixed(a) == BaseDelay

WaitTime(a) == (a + 1) * BaseDelay

\* f"SQL Error: {output}"
SqlError(out) == <<"SQL Error: ">> \o out

\* f"Query failed after {max_retries + 1} attempts: {last_error}"
QueryFailed(cause) ==
    [kind |-> "Query failed after attempts", n |-> max_retries + 1, cause |-> cause]

NoError == [kind |-> "", n |-> 0, cause |-> <<>>]

Event(ev, at, val, text) == [ev |-> ev, at |-> at, val |-> val, text |-> text]


NoPrompt == [question |-> "", output |-> <<>>]

ReplInit ==
    /\ rPc = "idle"
    /\ question = ""
    /\ attempt = 0
    /\ last_error = <<>>
    /\ output = <<>>
    /\ evalPrompt = NoPrompt
    /\ rAnswer = <<>>
    /\ rError = NoError
    /\ trace = <<>>

\* lines 32-43: the call starts and awaits the generation stage, attempt 0
ReplQuery ==
    \E q \in Questions :
        /\ program = "main.py"
        /\ rPc = "idle"
        /\ rPc' = "Generating"
        /\ question' = q
        /\ attempt' = 0
        /\ last_error' = <<>>
        /\ trace' = <<Event("gen", 0, 0, <<>>)>>
        /\ UNCHANGED <<output, evalPrompt, rAnswer, rError>>
    /\ UNCHANGED notRepl

\* lines 62-69 as they would be without the else branch that raises
ExceptAlwaysRetries(e, tr) ==
    /\ last_error' = e
    /\ rPc' = "Retrying"
    /\ trace' = Append(tr, Event("wait", attempt, WaitTime(attempt), <<>>))
    /\ UNCHANGED rError

\* lines 62-69: the except block, entered with exception e after history tr
Except(e, tr) ==
    /\ last_error' = e
    /\ IF RetriesLeft(attempt)
       THEN /\ rPc' = "Retrying"
            /\ trace' = Append(tr, Event("wait", attempt, WaitTime(attempt), <<>>))
            /\ UNCHANGED rError
       ELSE /\ rPc' = "Failed"
            /\ rError' = QueryFailed(e)
            /\ trace' = tr

\* lines 43-59: the generation stage returns; the output is checked
GenReturns ==
    \E fo \in GenFinalOutputs :
        /\ rPc = "Generating"
        /\ LET out == OrEmpty(fo)
               tr  == Append(trace, Event("genReturn", attempt,
                                          IF HasErrorMarker(out) THEN 1 ELSE 0, out))
           IN /\ output' = out
              /\ IF ErrorIsRaised(out, attempt)
                 THEN /\ Except(SqlError(out), tr)
                      /\ UNCHANGED evalPrompt
                 ELSE /\ rPc' = "Evaluating"
                      /\ evalPrompt' = [question |-> question, output |-> out]
                      /\ trace' = Append(tr, Event("eval", attempt, 0, out))
                      /\ UNCHANGED <<last_error, rError>>
        /\ UNCHANGED <<question, attempt, rAnswer>>
    /\ UNCHANGED notRepl

\* line 43 raises
GenRaises ==
    \E e \in StageErrors :
        /\ rPc = "Generating"
        /\ Except(e, Append(trace, Event("genRaise", attempt, 0, e)))
        /\ UNCHANGED <<question, attempt, output, evalPrompt, rAnswer>>
    /\ UNCHANGED notRepl

\* lines 59-60: the evaluation stage returns and its text is the result
EvalReturns ==
    \E ans \in EvalAnswers :
        /\ rPc = "Evaluating"
        /\ rPc' = "Done"
        /\ rAnswer' = ans
        /\ trace' = Append(trace, Event("evalReturn", attempt, 0, ans))
        /\ UNCHANGED <<question, attempt, last_error, output, evalPrompt, rError>>
    /\ UNCHANGED notRepl

\* line 59 raises
EvalRaises ==
    \E e \in StageErrors :
        /\ rPc = "Evaluating"
        /\ Except(e, Append(trace, Event("evalRaise", attempt, 0, e)))
        /\ UNCHANGED <<question, attempt, output, evalPrompt, rAnswer>>
    /\ UNCHANGED notRepl

\* line 67 returns and the for loop takes its next value, or runs out
SleepReturns ==
    /\ rPc = "Retrying"
    /\ IF attempt + 1 <= max_retries
       THEN /\ attempt' = attempt + 1
            /\ rPc' = "Generating"
            /\ trace' = Append(trace, Event("gen", attempt + 1, 0, <<>>))
            /\ UNCHANGED rAnswer
       ELSE /\ rPc' = "Done"
            /\ rAnswer' = <<>>
            /\ UNCHANGED <<attempt, trace>>
    /\ UNCHANGED <<question, last_error, output, evalPrompt, rError>>
    /\ UNCHANGED notRepl

\* main(), lines 85-103: the answer or the error is printed, the next question read
ReplNextQuestion ==
    /\ rPc \in {"Done", "Failed"}
    /\ rPc' = "idle"
    /\ question' = ""
    /\ attempt' = 0
    /\ last_error' = <<>>
    /\ output' = <<>>
    /\ evalPrompt' = NoPrompt
    /\ rAnswer' = <<>>
    /\ rError' = NoError
    /\ trace' = <<>>
    /\ UNCHANGED notRepl

ReplNext ==
    \/ ReplQuery
    \/ GenReturns
    \/ GenRaises
    \/ EvalReturns
    \/ EvalRaises
    \/ SleepReturns
    \/ ReplNextQuestion


\* ------------------------------------------------ the HTTP service (app.py)
Requests == 1..MaxRequests

\* request.session_id: absent, or a caller's identifier
NoneId == "<None>"

SuppliedIds == {NoneId, "s1"}

\* str(uuid.uuid4()) minted for request n: distinct from every other identifier
Uuid(n) == <<"uuid4", n>>

SessionIdOf(id) == <<"supplied", id>>

\* identifiers a DELETE is tried on: one that requests use, one that is never used
ClearIds == {SessionIdOf("s1"), SessionIdOf("s2")}

\* what the stages of a /query request return or raise
HttpQuestions == {"q1"}

HttpGenOutputs ==
    { [isNone |-> FALSE, text |-> <<"total", "50005">>],
      [isNone |-> FALSE, text |-> <<"ERROR:", "no such column: x">>] }

HttpAnswers == { <<"50005 calls.">> }

HttpErrors == { <<"APIConnectionError">> }

\* line 85: request.session_id or str(uuid.uuid4())
ResolveSessionId(supplied, n) ==
    IF supplied = NoneId \/ supplied = "" THEN Uuid(n) ELSE SessionIdOf(supplied)

Turn(role, text, by) == [role |-> role, text |-> text, by |-> by]

\* the session store: items of a session (none for an unknown identifier)
SessionItems(db, sid) == IF sid \in DOMAIN db THEN db[sid] ELSE <<>>

\* ... appending items to a session, which creates it on first use
SessionAdd(db, sid, items) ==
    [k \in DOMAIN db \cup {sid} |-> IF k = sid THEN SessionItems(db, sid) \o items ELSE db[k]]

\* ... clearing a session: its items and its row are removed; unknown ids are fine
SessionClear(db, sid) == [k \in DOMAIN db \ {sid} |-> db[k]]

\* Runner.run(..., session=session) reads the session's items as context
RunContextWithoutSession(sid) == <<>>

RunContext(sid) == SessionItems(store, sid)

\* the eval_prompt of lines 108-113
EvalPromptText(q, out) == <<"Original question: ", q, "SQL Agent results: ">> \o out

NoRequest == [question |-> "", session_id |-> NoneId]

NoResponse ==
    [kind |-> "", question |-> "", answer |-> <<>>, session_id |-> <<>>,
     success |-> FALSE, status_code |-> 0, detail |-> <<>>]

\* QueryResponse(question, answer, session_id, success=True)
QueryResponse(q, ans, sid) ==
    [kind |-> "QueryResponse", question |-> q, answer |-> ans, session_id |-> sid,
     success |-> TRUE, status_code |-> 200, detail |-> <<>>]

\* HTTPException(status_code=500, detail=str(e)): neither question nor session id
HTTPException(e) ==
    [kind |-> "HTTPException", question |-> "", answer |-> <<>>, session_id |-> <<>>,
     success |-> FALSE, status_code |-> 500, detail |-> e]

NoOp == [op |-> "", sid |-> <<>>, status |-> "", again |-> FALSE]

QueryOp == [op |-> "query", sid |-> <<>>, status |-> "", again |-> FALSE]

HttpInit ==
    /\ hPc = [n \in Requests |-> "new"]
    /\ hReq = [n \in Requests |-> NoRequest]
    /\ hSid = [n \in Requests |-> <<>>]
    /\ hCtx = [n \in Requests |-> <<>>]
    /\ hOut = [n \in Requests |-> <<>>]
    /\ hEvalCtx = [n \in Requests |-> <<>>]
    /\ hResp = [n \in Requests |-> NoResponse]
    /\ hDoneBefore = [n \in Requests |-> {}]
    /\ store = <<>>
    /\ wiped = {}
    /\ clears = 0
    /\ hLast = NoOp

\* the handler is left: what its run contexts held is gone with it
HandlerExits(n) ==
    /\ hCtx' = [hCtx EXCEPT ![n] = <<>>]
    /\ hEvalCtx' = [hEvalCtx EXCEPT ![n] = <<>>]
    /\ hDoneBefore' = [hDoneBefore EXCEPT ![n] = {}]

\* lines 79-103: the request arrives, the session id is resolved and the
\* generation stage is started on the question with the session as context
HttpQuery(n) ==
    \E q \in HttpQuestions, supplied \in SuppliedIds :
        /\ program = "app.py"
        /\ hPc[n] = "new"
        /\ n > 1 => hPc[n - 1] # "new"
        /\ LET session_id == ResolveSessionId(supplied, n)
           IN /\ hSid' = [hSid EXCEPT ![n] = session_id]
              /\ hCtx' = [hCtx EXCEPT ![n] = RunContext(session_id)]
        /\ hReq' = [hReq EXCEPT ![n] = [question |-> q, session_id |-> supplied]]
        /\ hPc' = [hPc EXCEPT ![n] = "sql_agent_run"]
        /\ hDoneBefore' = [hDoneBefore EXCEPT
                             ![n] = {m \in Requests : hPc[m] = "responded" /\ m \notin wiped}]
        /\ hLast' = QueryOp
        /\ UNCHANGED <<hOut, hEvalCtx, hResp, store, wiped, clears>>
    /\ UNCHANGED notHttp

\* lines 99-119 as they would be if a marked output started the generation
\* stage again, the way main.py does
HttpGenReturnsRetrying(n) ==
    \E fo \in HttpGenOutputs :
        /\ hPc[n] = "sql_agent_run"
        /\ LET output_ == OrEmpty(fo)
               added == SessionAdd(store, hSid[n],
                           <<Turn("user", <<hReq[n].question>>, n),
                             Turn("assistant", fo.text, n)>>)
           IN /\ hOut' = [hOut EXCEPT ![n] = output_]
              /\ store' = added
              /\ hEvalCtx' = [hEvalCtx EXCEPT ![n] = SessionItems(added, hSid[n])]
              /\ hPc' = [hPc EXCEPT ![n] = IF HasErrorMarker(output_)
                                           THEN "sql_agent_run" ELSE "evaluator_run"]
        /\ hLast' = QueryOp
        /\ UNCHANGED <<hReq, hSid, hCtx, hResp, hDoneBefore, wiped, clears>>
    /\ UNCHANGED notHttp

\* lines 99-119 as they would be if a run's appends waited for every other
\* request on the same session to leave the handler
HttpGenReturnsSerialized(n) ==
    \E fo \in HttpGenOutputs :
        /\ hPc[n] = "sql_agent_run"
        /\ \A m \in Requests \ {n} :
              hSid[m] = hSid[n] => hPc[m] \notin {"sql_agent_run", "evaluator_run"}
        /\ LET output_ == OrEmpty(fo)
               added == SessionAdd(store, hSid[n],
                           <<Turn("user", <<hReq[n].question>>, n),
                             Turn("assistant", fo.text, n)>>)
           IN /\ hOut' = [hOut EXCEPT ![n] = output_]
              /\ store' = added
              /\ hEvalCtx' = [hEvalCtx EXCEPT ![n] = SessionItems(added, hSid[n])]
        /\ hPc' = [hPc EXCEPT ![n] = "evaluator_run"]
        /\ hLast' = QueryOp
        /\ UNCHANGED <<hReq, hSid, hCtx, hResp, hDoneBefore, wiped, clears>>
    /\ UNCHANGED notHttp

\* lines 99-119: the generation stage returns; its run stores its turns in the
\* session; the evaluation stage is started on the prompt, with the session
HttpGenReturns(n) ==
    \E fo \in HttpGenOutputs :
        /\ hPc[n] = "sql_agent_run"
        /\ LET output_ == OrEmpty(fo)
               added == SessionAdd(store, hSid[n],
                           <<Turn("user", <<hReq[n].question>>, n),
                             Turn("assistant", fo.text, n)>>)
           IN /\ hOut' = [hOut EXCEPT ![n] = output_]
              /\ store' = added
              /\ hEvalCtx' = [hEvalCtx EXCEPT ![n] = SessionItems(added, hSid[n])]
        /\ hPc' = [hPc EXCEPT ![n] = "evaluator_run"]
        /\ hLast' = QueryOp
        /\ UNCHANGED <<hReq, hSid, hCtx, hResp, hDoneBefore, wiped, clears>>
    /\ UNCHANGED notHttp

\* lines 115-126 as they would be with one session object shared by all requests
HttpEvalReturnsSharedLog(n) ==
    \E ans \in HttpAnswers :
        /\ hPc[n] = "evaluator_run"
        /\ store' = SessionAdd(store, SessionIdOf("s1"),
                        <<Turn("user", EvalPromptText(hReq[n].question, hOut[n]), n),
                          Turn("assistant", ans, n)>>)
        /\ hResp' = [hResp EXCEPT ![n] = QueryResponse(hReq[n].question, ans, hSid[n])]
        /\ hPc' = [hPc EXCEPT ![n] = "responded"]
        /\ HandlerExits(n)
        /\ hLast' = QueryOp
        /\ UNCHANGED <<hReq, hSid, hOut, wiped, clears>>
    /\ UNCHANGED notHttp

\* lines 115-126: the evaluation stage returns; its run stores its turns in
\* the session; the response is built with success=True
HttpEvalReturns(n) ==
    \E ans \in HttpAnswers :
        /\ hPc[n] = "evaluator_run"
        /\ store' = SessionAdd(store, hSid[n],
                        <<Turn("user", EvalPromptText(hReq[n].question, hOut[n]), n),
                          Turn("assistant", ans, n)>>)
        /\ hResp' = [hResp EXCEPT ![n] = QueryResponse(hReq[n].question, ans, hSid[n])]
        /\ hPc' = [hPc EXCEPT ![n] = "responded"]
        /\ HandlerExits(n)
        /\ hLast' = QueryOp
        /\ UNCHANGED <<hReq, hSid, hOut, wiped, clears>>
    /\ UNCHANGED notHttp

\* lines 128-130 as they would be if the except block answered normally
HttpStageRaisesSwallowed(n) ==
    \E e \in HttpErrors :
        /\ hPc[n] \in {"sql_agent_run", "evaluator_run"}
        /\ hResp' = [hResp EXCEPT ![n] = QueryResponse(hReq[n].question, e, hSid[n])]
        /\ hPc' = [hPc EXCEPT ![n] = "failed"]
        /\ HandlerExits(n)
        /\ hLast' = QueryOp
        /\ UNCHANGED <<hReq, hSid, hOut, store, wiped, clears>>
    /\ UNCHANGED notHttp

\* lines 128-130: either stage raises; the handler answers with status 500
HttpStageRaises(n) ==
    \E e \in HttpErrors :
        /\ hPc[n] \in {"sql_agent_run", "evaluator_run"}
        /\ hResp' = [hResp EXCEPT ![n] = HTTPException(e)]
        /\ hPc' = [hPc EXCEPT ![n] = "failed"]
        /\ HandlerExits(n)
        /\ hLast' = QueryOp
        /\ UNCHANGED <<hReq, hSid, hOut, store, wiped, clears>>
    /\ UNCHANGED notHttp

\* the caller abandons the request at an await: CancelledError is not an
\* Exception, so the except block is skipped and nothing is returned
HttpCancelled(n) ==
    /\ hPc[n] \in {"sql_agent_run", "evaluator_run"}
    /\ hPc' = [hPc EXCEPT ![n] = "cancelled"]
    /\ HandlerExits(n)
    /\ hLast' = QueryOp
    /\ UNCHANGED <<hReq, hSid, hOut, hResp, store, wiped, clears>>
    /\ UNCHANGED notHttp

\* lines 133-142 with a check the handler does not make
clear_session_known_only(session_id) ==
    /\ program = "app.py"
    /\ clears < MaxClears
    /\ clears' = clears + 1
    /\ store' = SessionClear(store, session_id)
    /\ wiped' = wiped \cup
           {n \in Requests : \E i \in DOMAIN SessionItems(store, session_id) :
                                  SessionItems(store, session_id)[i].by = n}
    /\ hLast' = [op |-> "clear", sid |-> session_id,
                 status |-> IF session_id \in DOMAIN store THEN "cleared" ELSE "error",
                 again |-> hLast.op = "clear" /\ hLast.sid = session_id]
    /\ UNCHANGED <<hPc, hReq, hSid, hCtx, hOut, hEvalCtx, hResp, hDoneBefore>>
    /\ UNCHANGED notHttp

\* lines 133-140: DELETE /session/{session_id}
clear_session(session_id) ==
    /\ program = "app.py"
    /\ clears < MaxClears
    /\ clears' = clears + 1
    /\ store' = SessionClear(store, session_id)
    /\ wiped' = wiped \cup
           {n \in Requests : \E i \in DOMAIN SessionItems(store, session_id) :
                                  SessionItems(store, session_id)[i].by = n}
    /\ hLast' = [op |-> "clear", sid |-> session_id, status |-> "cleared",
                 again |-> hLast.op = "clear" /\ hLast.sid = session_id]
    /\ UNCHANGED <<hPc, hReq, hSid, hCtx, hOut, hEvalCtx, hResp, hDoneBefore>>
    /\ UNCHANGED notHttp

HttpNext ==
    \/ \E n \in Requests : HttpQuery(n)
    \/ \E n \in Requests : HttpGenReturns(n)
    \/ \E n \in Requests : HttpEvalReturns(n)
    \/ \E n \in Requests : HttpStageRaises(n)
    \/ \E n \in Requests : HttpCancelled(n)
    \/ \E sid \in ClearIds : clear_session(sid)

\* ------------------------------------------------------- specifications
vars == <<toolVars, replVars, httpVars, program>>

Init ==
    /\ program \in {"main.py", "app.py"}
    /\ ToolInit
    /\ ReplInit
    /\ HttpInit

Next == ToolNext \/ ReplNext \/ HttpNext

Spec == Init /\ [][Next]_vars

\* the query tool alone
SpecTool == Init /\ [][ToolNext]_vars

\* the REPL orchestrator alone
SpecRepl == Init /\ [][ReplNext]_vars

\* the HTTP service alone
SpecHttp == Init /\ [][HttpNext]_vars

\* the two orchestration entry points, whichever was started
SpecOrch == Init /\ [][ReplNext \/ HttpNext]_vars

\* the REPL orchestrator when every awaited stage call and every sleep ends
SpecReplFair ==
    /\ SpecRepl
    /\ WF_vars(GenReturns \/ GenRaises)
    /\ WF_vars(EvalReturns \/ EvalRaises)
    /\ WF_vars(SleepReturns)

\* ------------------------------------------------------------------ claims
\* C1: in every call of run_sql_query, and after any sequence of calls, the
\* store's execute_sql receives a string only if validate_sql accepted that
\* same string in the same call; a rejected string yields text starting with
\* "ERROR: " and no store invocation; the store sees exactly the accepted ones.
C1_ExecutedOnlyIfValidated ==
    /\ \A i \in DOMAIN calls :
          LET c == calls[i]
          IN /\ c.executed # <<>> =>
                   /\ c.executed = <<c.sql>>
                   /\ c.verdicts # <<>>
                   /\ c.verdicts[1][1]
             /\ (c.verdicts # <<>> /\ ~c.verdicts[1][1]) =>
                   /\ c.error
                   /\ i = Len(calls) => StartsWithError(result)
                   /\ c.executed = <<>>
                   /\ ~c.raised
    /\ \A j \in DOMAIN storeLog : validate_sql(storeLog[j])[1]
    /\ Len(storeLog) = Cardinality({i \in DOMAIN calls : calls[i].executed # <<>>})

\* a rejected call and an executed call in the same run
C1_Witness ==
    /\ Len(calls) = 2
    /\ calls[1].verdicts # <<>> /\ ~calls[1].verdicts[1][1]
    /\ calls[1].error
    /\ calls[2].executed # <<>>
    /\ storeLog = <<calls[2].sql>>

\* ---- helpers over the history of one call of query()
EventsOf(ev) == {i \in DOMAIN trace : trace[i].ev = ev}

IsFailure(e) ==
    \/ e.ev \in {"genRaise", "evalRaise"}
    \/ e.ev = "genReturn" /\ e.val = 1

IsRaise(e) == e.ev \in {"genRaise", "evalRaise"}

\* the generation output of attempt a carried the marker / was clean
GenMarkerAt(a) ==
    \E i \in DOMAIN trace : trace[i].ev = "genReturn" /\ trace[i].at = a /\ trace[i].val = 1

GenCleanAt(a) ==
    \E i \in DOMAIN trace : trace[i].ev = "genReturn" /\ trace[i].at = a /\ trace[i].val = 0

ErrorOnAllAttempts == \A a \in 0..2 : GenMarkerAt(a)

Finished == rPc \in {"Done", "Failed"}

IsWait(e) == e.ev = "wait"

Waits == SelectSeq(trace, IsWait)

\* C2 as stated: with the marker in the generation output of attempts 0, 1 and
\* 2 the call ends in failure and the error raised carries the last output.
C2_FailsWhenAllAttemptsError ==
    (ErrorOnAllAttempts /\ Finished) =>
        /\ rPc = "Failed"
        /\ rError.kind = "Query failed after attempts"
        /\ rError.cause = SqlError(output)

\* C2 amended: with the marker in the generation output of attempts 0, 1 and 2,
\* the third output goes to the evaluation stage unchanged; the call returns the
\* evaluation stage's text, and fails ("Query failed after 3 attempts") only
\* when the evaluation stage raises, carrying that stage's error.
C2_LastErrorOutputIsEvaluated ==
    ErrorOnAllAttempts =>
        /\ rPc \in {"Evaluating", "Done", "Failed"}
        /\ HasErrorMarker(output)
        /\ evalPrompt = [question |-> question, output |-> output]
        /\ \E i \in DOMAIN trace :
              /\ trace[i] = Event("eval", 2, 0, output)
              /\ i > 1 /\ trace[i - 1] = Event("genReturn", 2, 1, output)
        /\ rPc = "Done" =>
              /\ trace[Len(trace)].ev = "evalReturn"
              /\ rAnswer = trace[Len(trace)].text
              /\ rError = NoError
        /\ rPc = "Failed" =>
              /\ trace[Len(trace)].ev = "evalRaise"
              /\ rError = QueryFailed(trace[Len(trace)].text)
              /\ rError.n = 3
              /\ rError.cause \in StageErrors

C2_Witness == ErrorOnAllAttempts /\ rPc = "Done" /\ rAnswer \in EvalAnswers

\* C3: the wait after a failed attempt i is (i + 1) * 2 and lies between the
\* generation call of attempt i and that of attempt i + 1; with the marker on
\* attempts 0 and 1 and a clean output on attempt 2 followed by a successful
\* evaluation, the waits are exactly 2 then 4 and the third attempt's
\* evaluation text is returned.
C3_BackoffSchedule ==
    /\ \A i \in DOMAIN trace :
          trace[i].ev = "wait" =>
             /\ trace[i].val = (trace[i].at + 1) * 2
             /\ i > 1 /\ IsFailure(trace[i - 1]) /\ trace[i - 1].at = trace[i].at
             /\ \E j \in 1..(i - 1) : trace[j] = Event("gen", trace[i].at, 0, <<>>)
             /\ i < Len(trace) => trace[i + 1] = Event("gen", trace[i].at + 1, 0, <<>>)
             /\ i = Len(trace) => rPc = "Retrying"
    /\ (GenMarkerAt(0) /\ GenMarkerAt(1) /\ GenCleanAt(2) /\ rPc = "Done") =>
          /\ Len(Waits) = 2
          /\ Waits[1].val = 2 /\ Waits[2].val = 4
          /\ Cardinality(EventsOf("gen")) = 3
          /\ trace[Len(trace)].ev = "evalReturn" /\ trace[Len(trace)].at = 2
          /\ rAnswer = trace[Len(trace)].text

C3_Witness ==
    /\ GenMarkerAt(0) /\ GenMarkerAt(1) /\ GenCleanAt(2) /\ rPc = "Done"
    /\ Len(Waits) = 2

\* C4: whatever the mix of marked outputs and raised failures, the generation
\* stage is called at most 3 times, for attempts 0, 1, 2, at most 2 waits are
\* taken, and none after the last attempt.
C4_AttemptsBounded ==
    /\ Cardinality(EventsOf("gen")) <= 3
    /\ \A i \in EventsOf("gen") : trace[i].at \in 0..2
    /\ \A i, j \in EventsOf("gen") : trace[i].at = trace[j].at => i = j
    /\ Len(Waits) <= 2
    /\ \A i \in EventsOf("wait") : trace[i].at < 2
    /\ attempt \in 0..2
    /\ rPc = "Retrying" => attempt < 2

\* three attempts, failed by a raised error and by marked outputs
C4_Witness ==
    /\ Cardinality(EventsOf("gen")) = 3 /\ Len(Waits) = 2
    /\ EventsOf("genRaise") # {} /\ GenMarkerAt(1)
    /\ rPc = "Failed"

\* C6 as stated: a raised stage failure ends the run at once: nothing follows
\* it, no wait is taken and no further attempt starts.
C6_RaiseIsTerminal ==
    \A i \in DOMAIN trace :
        IsRaise(trace[i]) => (i = Len(trace) /\ rPc = "Failed")

\* C6 amended: a stage call that raises on attempt i < 2 is treated like any
\* recoverable failure: it uses up attempt i, the wait (i + 1) * 2 is taken
\* and attempt i + 1 starts; only a raise on attempt 2 ends the run, with
\* "Query failed after 3 attempts" carrying the raised error.
C6_RaiseIsRetried ==
    \A i \in DOMAIN trace :
        IsRaise(trace[i]) =>
            IF trace[i].at < 2
            THEN /\ i < Len(trace)
                 /\ trace[i + 1] = Event("wait", trace[i].at, (trace[i].at + 1) * 2, <<>>)
                 /\ rPc # "Failed" \/ i + 1 < Len(trace)
                 /\ i + 1 < Len(trace) =>
                        trace[i + 2] = Event("gen", trace[i].at + 1, 0, <<>>)
            ELSE /\ i = Len(trace)
                 /\ rPc = "Failed"
                 /\ rError = QueryFailed(trace[i].text)

\* a raise on attempt 0 that was retried, and a raise on attempt 2 that was not
C6_Witness ==
    /\ rPc = "Failed"
    /\ \E i \in DOMAIN trace : trace[i].ev = "genRaise" /\ trace[i].at = 0
    /\ \E i \in DOMAIN trace : trace[i].ev = "evalRaise" /\ trace[i].at = 2

\* ---- helpers over the /query requests
InFlight(n) == hPc[n] \in {"sql_agent_run", "evaluator_run"}

\* the turns request m has put in its session, in the order it wrote them
TurnsBy(items, m) ==
    LET ByM(t) == t.by = m IN SelectSeq(items, ByM)

\* the four turns of a completed exchange m
ExchangeOf(m) ==
    <<Turn("user", <<hReq[m].question>>, m),
      Turn("assistant", hOut[m], m),
      Turn("user", EvalPromptText(hReq[m].question, hOut[m]), m),
      Turn("assistant", hResp[m].answer, m)>>

IsPrefix(a, b) == Len(a) <= Len(b) /\ SubSeq(b, 1, Len(a)) = a

\* C5 as stated: a run whose last generation output carries "ERROR:" is never
\* returned as a successful answer, by query() or by /query.
C5_NoSuccessWithErrorMarker ==
    /\ rPc = "Done" => ~HasErrorMarker(output)
    /\ \A n \in Requests : hResp[n].success => ~HasErrorMarker(hOut[n])

\* C5 amended: the result is successful exactly when the evaluation stage of
\* the run's last attempt returned its text (and then that text is the answer);
\* otherwise the caller gets an error without an answer (HTTP 500, or "Query
\* failed after 3 attempts"). The marker in the last generation output does
\* not prevent success.
C5_SuccessIffEvaluationReturned ==
    /\ rPc = "Done" <=> (trace # <<>> /\ trace[Len(trace)].ev = "evalReturn")
    /\ rPc = "Done" => (rAnswer = trace[Len(trace)].text /\ rError = NoError)
    /\ rPc = "Failed" =>
          /\ IsRaise(trace[Len(trace)])
          /\ rAnswer = <<>>
          /\ rError = QueryFailed(trace[Len(trace)].text)
    /\ rPc \notin {"Done", "Failed"} => (rAnswer = <<>> /\ rError = NoError)
    /\ \A n \in Requests :
          /\ hResp[n].success <=> hPc[n] = "responded"
          /\ hPc[n] = "responded" =>
                /\ hResp[n].kind = "QueryResponse"
                /\ hResp[n].answer \in HttpAnswers
                /\ hResp[n].question = hReq[n].question
          /\ hPc[n] = "failed" =>
                /\ hResp[n].kind = "HTTPException"
                /\ hResp[n].status_code = 500
                /\ hResp[n].answer = <<>>
                /\ hResp[n].detail \in HttpErrors
          /\ hPc[n] \notin {"responded", "failed"} => hResp[n] = NoResponse

\* a successful response built from an output that carries the marker
C5_Witness ==
    \E n \in Requests :
        hPc[n] = "responded" /\ hResp[n].success /\ HasErrorMarker(hOut[n])

\* C7: the resolved session identifier is carried by the outcome of every
\* /query request, the successful response and the failure alike.
C7_SessionIdInEveryOutcome ==
    \A n \in Requests :
        hPc[n] \in {"responded", "failed"} =>
            (hSid[n] # <<>> /\ hResp[n].session_id = hSid[n])

\* C8: a /query request that fails or is cancelled before the evaluation stage
\* has returned leaves none of its turns in the session.
C8_NoTurnsOfUnansweredRequest ==
    \A n \in Requests :
        hPc[n] \in {"failed", "cancelled"} =>
            TurnsBy(SessionItems(store, hSid[n]), n) = <<>>

\* C9: a request that arrives after an exchange on the same session completed
\* runs its generation stage on a context that holds the four turns of that
\* exchange in append order, unless a clear removed them; and no step other
\* than a clear of that session alters, reorders or removes stored turns.
C9_LaterRequestsReplayExchange ==
    /\ [](\A n \in Requests :
             InFlight(n) =>
                 \A m \in hDoneBefore[n] :
                     hSid[m] = hSid[n] => TurnsBy(hCtx[n], m) = ExchangeOf(m))
    /\ [][\A sid \in DOMAIN store :
             \/ IsPrefix(store[sid], SessionItems(store', sid))
             \/ hLast'.op = "clear" /\ hLast'.sid = sid]_vars

\* a request running on the context of a completed exchange of its session
C9_Witness ==
    \E n, m \in Requests :
        /\ hPc[n] = "sql_agent_run"
        /\ m \in hDoneBefore[n]
        /\ hSid[m] = hSid[n]
        /\ Len(hCtx[n]) >= 4

Mutating ==
    {"INSERT", "UPDATE", "DELETE", "DROP", "CREATE", "ALTER", "TRUNCATE", "EXEC", "--"}

HasKeyword(s) == \E i \in DOMAIN s : UpperTok(s[i]) \in Mutating

HasSemi(s) == \E i \in DOMAIN s : s[i] = ";"

\* a ';' is left once the literals and the trailing terminator are gone
SeparatorRemains(sql) == HasSemi(RStripSemi(Strip(StripLiterals(sql))))

BeginsWithSelect(sql) == StartsWithSelect(Strip(Upper(sql)))

\* some entry of the dangerous list occurs in the upper-cased text, literals included
HasDangerousText(sql) ==
    \E k \in DOMAIN Dangerous : Contains(Strip(Upper(sql)), Dangerous[k])

\* the calls in which validate_sql returned
Validated == {i \in DOMAIN calls : calls[i].verdicts # <<>>}

VerdictAt(i) == calls[i].verdicts[1]

\* the last lexeme before position k that is not whitespace (0 if none)
PrevLexeme(s, k) ==
    IF \E j \in 1..(k - 1) : ~IsSpace(s[j])
    THEN CHOOSE j \in 1..(k - 1) : ~IsSpace(s[j]) /\ \A m \in (j + 1)..(k - 1) : IsSpace(s[m])
    ELSE 0

\* the word at k names a table: it follows FROM or JOIN, or a comma after a table
RECURSIVE IsTableRef(_, _)
IsTableRef(s, k) ==
    /\ IsWord(s[k])
    /\ LET j == PrevLexeme(s, k)
       IN /\ j > 0
          /\ \/ UpperTok(s[j]) \in {"FROM", "JOIN"}
             \/ /\ s[j] = ","
                /\ LET h == PrevLexeme(s, j) IN h > 0 /\ IsTableRef(s, h)

\* the tables a statement references, outside its literals, lower-cased
Referenced(sql) ==
    LET t == StripLiterals(sql)
    IN {LowerTok(t[k]) : k \in {k \in DOMAIN t : IsTableRef(t, k)}}

\* C11: validate_sql rejects every candidate that has a mutating keyword outside
\* a quoted literal, in any case; a candidate in which such a keyword appears
\* only inside a single-quoted literal, and whose text outside the literals is
\* a valid SELECT on known tables, is not rejected.
C11_KeywordsOutsideLiteralsOnly ==
    \A i \in Validated :
        LET sql == calls[i].sql
        IN /\ HasKeyword(StripLiterals(sql)) => ~VerdictAt(i)[1]
           /\ (/\ HasKeyword(sql)
               /\ ~HasKeyword(StripLiterals(sql))
               /\ validate_sql(StripLiterals(sql))[1]) => VerdictAt(i)[1]

\* C12 as stated: every candidate in which a ';' remains after the literals and
\* the trailing terminator are stripped is rejected with the reason "Multiple
\* statements not allowed"; a ';' inside a literal does not cause rejection.
C12_SeparatorReasonAlways ==
    \A i \in Validated :
        LET sql == calls[i].sql
        IN /\ SeparatorRemains(sql) =>
                 VerdictAt(i) = <<FALSE, <<"Multiple statements not allowed">>>>
           /\ ~SeparatorRemains(sql) =>
                 VerdictAt(i)[2] # <<"Multiple statements not allowed">>

\* C12 amended: every candidate in which a ';' remains after the literals and
\* the trailing terminator are stripped is rejected; the reason is "Multiple
\* statements not allowed" exactly when the text also begins with SELECT and
\* holds no entry of the dangerous list, otherwise it is the reason of the
\* earlier rule. A ';' that is only inside a literal, or only trailing, never
\* gives that reason. The stacked input is rejected, as "Blocked keyword: DROP".
C12_SeparatorRejected ==
    \A i \in Validated :
        LET sql == calls[i].sql
            v   == VerdictAt(i)
        IN /\ SeparatorRemains(sql) => ~v[1]
           /\ v[2] = <<"Multiple statements not allowed">> <=>
                 (SeparatorRemains(sql) /\ BeginsWithSelect(sql) /\ ~HasDangerousText(sql))
           /\ (HasSemi(sql) /\ ~SeparatorRemains(sql) /\ validate_sql(StripLiterals(sql))[1]
                 /\ ~HasDangerousText(sql) /\ Referenced(sql) = {"calls"}) => v[1]
           /\ sql = <<"SELECT", " ", "*", " ", "FROM", " ", "calls", ";", " ",
                      "DROP", " ", "TABLE", " ", "calls", ";">> =>
                 v = <<FALSE, <<"Blocked keyword: ", "DROP">>>>

\* the stacked input rejected by rule 2, then a ';' inside a literal accepted
C12_Witness ==
    /\ Len(calls) = 2
    /\ calls[1].sql = <<"SELECT", " ", "*", " ", "FROM", " ", "calls", ";", " ",
                        "DROP", " ", "TABLE", " ", "calls", ";">>
    /\ calls[1].verdicts # <<>> /\ ~calls[1].verdicts[1][1]
    /\ calls[2].sql = <<"SELECT", " ", "*", " ", "FROM", " ", "calls", " ", "WHERE", " ",
                        "notes", "=", "'", ";", "'">>
    /\ calls[2].executed # <<>>

\* C13: validate_sql rejects, with the reason "Unknown table: X", every
\* candidate that references a table absent from the schema, and accepts a
\* single read-only statement that references only known tables, in any case.
C13_UnknownTablesRejected ==
    \A i \in Validated :
        LET sql == calls[i].sql
            v   == VerdictAt(i)
        IN /\ Referenced(sql) \ SchemaTables # {} =>
                 /\ ~v[1]
                 /\ v[2][1] = "Unknown table: "
                 /\ LowerTok(v[2][2]) \in Referenced(sql) \ SchemaTables
           /\ (/\ BeginsWithSelect(sql)
               /\ ~SeparatorRemains(sql)
               /\ ~HasKeyword(StripLiterals(sql))
               /\ Referenced(sql) \subseteq SchemaTables) => v[1]

\* C14: the four rules are applied in order and the first violated one gives
\* the reason: a text that, trimmed and upper-cased, does not begin with SELECT
\* is rejected with "Only SELECT queries allowed" whatever else it holds; then
\* the first entry of the dangerous list found; then the separator rule; and
\* get_schema() is called only when rules 1-3 pass.
C14_RulesInOrder ==
    \A i \in DOMAIN calls :
        LET sql == calls[i].sql
            c   == calls[i]
            passes123 ==
                BeginsWithSelect(sql) /\ ~HasDangerousText(sql) /\ ~SeparatorRemains(sql)
        IN /\ c.consulted <=> passes123
           /\ c.raised => c.consulted
           /\ ~BeginsWithSelect(sql) =>
                 c.verdicts = << <<FALSE, <<"Only SELECT queries allowed">>>> >>
           /\ (BeginsWithSelect(sql) /\ HasDangerousText(sql)) =>
                 /\ c.verdicts # <<>> /\ ~c.verdicts[1][1]
                 /\ c.verdicts[1][2][1] = "Blocked keyword: "
                 /\ \E k \in DOMAIN Dangerous :
                       /\ c.verdicts[1][2][2] = Dangerous[k]
                       /\ Contains(Strip(Upper(sql)), Dangerous[k])
                       /\ \A h \in 1..(k - 1) : ~Contains(Strip(Upper(sql)), Dangerous[h])
           /\ (BeginsWithSelect(sql) /\ ~HasDangerousText(sql) /\ SeparatorRemains(sql)) =>
                 c.verdicts = << <<FALSE, <<"Multiple statements not allowed">>>> >>
           /\ (c.verdicts # <<>> /\ passes123) =>
                 c.verdicts[1][2] \in
                     {<<"Valid">>} \cup {<<"Unknown table: ", t>> : t \in {"fake_table", "home"}}

\* "DELETE FROM calls WHERE ..." rejected by rule 1 while the schema has never
\* been read, and a statement stopped by rule 2 that also breaks rules 3
C14_Witness ==
    /\ Len(calls) = 2
    /\ ~schemaCached
    /\ calls[1].sql = <<"DELETE", " ", "FROM", " ", "calls", " ", "WHERE", " ", "x">>
    /\ calls[1].verdicts = << <<FALSE, <<"Only SELECT queries allowed">>>> >>
    /\ calls[2].verdicts = << <<FALSE, <<"Blocked keyword: ", "DROP">>>> >>
    /\ SeparatorRemains(calls[2].sql)

\* C15: no exception leaves run_sql_query: a rejection by the validator and an
\* error of the store are both returned as text that starts with "ERROR: ".
C15_NoExceptionLeavesTool ==
    /\ \A i \in DOMAIN calls :
          /\ ~calls[i].raised
          /\ (calls[i].verdicts # <<>> /\ ~calls[i].verdicts[1][1]) => calls[i].error
    /\ fetched.kind = "error" => StartsWithError(result)

IsRow(l) == l.tag = "row"

\* C16: for an accepted query whose execution returns n rows the text is the
\* "No results found." marker alone when n = 0; otherwise the header, then
\* min(n, 50) rows in store order, the more-rows marker with n - 50 exactly
\* when n > 50, and last the total, which is n.
C16_PreviewFormat ==
    fetched.kind = "rows" =>
        LET n == fetched.n
            r == result
            shown == IF n <= 50 THEN n ELSE 50
        IN IF n = 0
           THEN r = <<Line("No results found.", 0, <<>>)>>
           ELSE /\ Len(r) = 2 + shown + (IF n > 50 THEN 1 ELSE 0) + 1
                /\ r[1].tag = "header"
                /\ \A i \in 1..shown : r[2 + i] = Line("row", i, <<>>)
                /\ Len(SelectSeq(r, IsRow)) = shown
                /\ (\E i \in DOMAIN r : r[i].tag = "... and more rows") <=> n > 50
                /\ n > 50 => r[Len(r) - 1] = Line("... and more rows", n - 50, <<>>)
                /\ r[Len(r)] = Line("Total: row(s)", n, <<>>)
                /\ \A i \in DOMAIN r : r[i].tag # "No results found."

\* an accepted query that returned one row more than the preview shows
C16_Witness ==
    /\ calls # <<>> /\ calls[Len(calls)].executed # <<>>
    /\ fetched = [kind |-> "rows", n |-> 51]
    /\ Len(result) = 54

\* C17: in query() the evaluation stage is invoked in an attempt exactly when
\* that attempt's generation output has no "ERROR:" or the attempt is the last
\* one (index 2): a marked output of attempt 0 or 1 never reaches it, a marked
\* output of attempt 2 is handed to it, and what it returns is the answer.
C17_EvaluationExactlyWhen ==
    /\ \A i \in DOMAIN trace :
          trace[i].ev = "genReturn" =>
              ((~HasErrorMarker(trace[i].text) \/ trace[i].at = 2)
                  <=> (/\ i < Len(trace)
                       /\ trace[i + 1] = Event("eval", trace[i].at, 0, trace[i].text)))
    /\ \A i \in DOMAIN trace :
          trace[i].ev = "eval" =>
              /\ i > 1 /\ trace[i - 1].ev = "genReturn" /\ trace[i - 1].at = trace[i].at
              /\ \A j \in DOMAIN trace :
                    (trace[j].ev = "eval" /\ trace[j].at = trace[i].at) => j = i
    /\ rPc = "Evaluating" =>
          /\ trace[Len(trace)].ev = "eval"
          /\ evalPrompt = [question |-> question, output |-> trace[Len(trace)].text]
    /\ rPc = "Done" =>
          /\ trace[Len(trace)].ev = "evalReturn"
          /\ trace[Len(trace) - 1].ev = "eval"
          /\ rAnswer = trace[Len(trace)].text

\* a marked output on attempt 0 that was not evaluated, a raise on attempt 1,
\* and a marked output on attempt 2 that was evaluated and answered
C17_Witness ==
    /\ rPc = "Done"
    /\ GenMarkerAt(0) /\ GenMarkerAt(2)
    /\ \E i \in DOMAIN trace : trace[i].ev = "genRaise" /\ trace[i].at = 1
    /\ HasErrorMarker(evalPrompt.output)
    /\ Cardinality(EventsOf("eval")) = 1

\* the transitions the state-machine description names
StatedTransitions ==
    { <<"idle", "Generating">>, <<"Generating", "Evaluating">>,
      <<"Generating", "Retrying">>, <<"Generating", "Failed">>,
      <<"Retrying", "Generating">>, <<"Evaluating", "Done">>,
      <<"Evaluating", "Failed">>, <<"Done", "idle">>, <<"Failed", "idle">> }

\* C18 as stated: the only transitions are Generating -> (Checking ->)
\* Evaluating -> Done, Generating -> Retrying -> Generating, and into Failed;
\* a run that has entered Evaluating ends in Done or Failed and never goes back
\* to Retrying or Generating.
C18_EvaluatingIsFinal ==
    [][rPc' # rPc => <<rPc, rPc'>> \in StatedTransitions]_vars

\* C18 amended: to the stated transitions add Evaluating -> Retrying: when the
\* evaluation stage raises on attempt 0 or 1 the run waits and generates again.
\* Retrying is entered only with attempts left, Failed only on attempt 2, and
\* Retrying -> Generating adds one to the attempt index.
C18_Transitions ==
    [][rPc' # rPc =>
          /\ <<rPc, rPc'>> \in StatedTransitions \cup {<<"Evaluating", "Retrying">>}
          /\ rPc' = "Retrying" => (attempt < 2 /\ attempt' = attempt)
          /\ rPc' = "Failed" => (attempt = 2 /\ attempt' = attempt)
          /\ rPc' = "Done" => attempt' = attempt
          /\ <<rPc, rPc'>> = <<"Retrying", "Generating">> => attempt' = attempt + 1
          /\ <<rPc, rPc'>> = <<"Generating", "Evaluating">> => attempt' = attempt]_vars

\* an evaluation that raised on attempt 0, after which attempt 1 is generating
C18_Witness ==
    /\ rPc = "Generating" /\ attempt = 1
    /\ Len(trace) >= 3
    /\ trace[Len(trace) - 2].ev = "evalRaise" /\ trace[Len(trace) - 2].at = 0
    /\ trace[Len(trace) - 1].ev = "wait"

\* the turns request n has issued to its session so far, by where it is
Issued(n) ==
    LET gen == <<Turn("user", <<hReq[n].question>>, n), Turn("assistant", hOut[n], n)>>
    IN CASE hPc[n] \in {"new", "sql_agent_run"} -> <<>>
         [] hPc[n] = "evaluator_run" -> gen
         [] hPc[n] = "responded" -> ExchangeOf(n)
         [] OTHER -> IF hOut[n] = <<>> THEN <<>> ELSE gen

\* C19: /query does no retry of its own: per request the generation stage is
\* invoked once and the evaluation stage at most once, with no waiting step
\* between them; a generation output with "ERROR:" goes to the evaluation
\* stage unchanged, and the first stage failure raised ends the request with
\* status 500.
C19_HttpNoRetry ==
    /\ [][\A n \in Requests :
             hPc'[n] # hPc[n] =>
                 <<hPc[n], hPc'[n]>> \in
                     { <<"new", "sql_agent_run">>, <<"sql_agent_run", "evaluator_run">>,
                       <<"sql_agent_run", "failed">>, <<"sql_agent_run", "cancelled">>,
                       <<"evaluator_run", "responded">>, <<"evaluator_run", "failed">>,
                       <<"evaluator_run", "cancelled">> }]_vars
    /\ [](\A n \in Requests :
             /\ n \notin wiped =>
                   TurnsBy(SessionItems(store, hSid[n]), n) = Issued(n)
             /\ hPc[n] = "failed" =>
                   (hResp[n].status_code = 500 /\ ~hResp[n].success)
             /\ (hPc[n] = "failed" /\ hOut[n] # <<>> /\ n \notin wiped) =>
                   Len(TurnsBy(SessionItems(store, hSid[n]), n)) = 2)

\* a request answered from a marked output, with its one exchange stored, and
\* another request that failed at its first raise
C19_Witness ==
    \E n, m \in Requests :
        /\ hPc[n] = "responded" /\ HasErrorMarker(hOut[n]) /\ n \notin wiped
        /\ Len(TurnsBy(SessionItems(store, hSid[n]), n)) = 4
        /\ hPc[m] = "failed" /\ hOut[m] = <<>>

\* C20: with two /query requests on different session identifiers, however
\* their stage calls interleave, each session's log holds only turns of the
\* requests made on it, in the order the request issued them, and no request
\* runs on a context that holds a turn of a request of another session.
C20_SessionsIndependent ==
    /\ \A sid \in DOMAIN store : \A i \in DOMAIN store[sid] :
          hSid[store[sid][i].by] = sid
    /\ \A n \in Requests :
          /\ n \notin wiped => TurnsBy(SessionItems(store, hSid[n]), n) = Issued(n)
          /\ \A i \in DOMAIN hCtx[n] : hSid[hCtx[n][i].by] = hSid[n]
          /\ \A i \in DOMAIN hEvalCtx[n] : hSid[hEvalCtx[n][i].by] = hSid[n]
    /\ \A n, m \in Requests :
          (hSid[n] # <<>> /\ hSid[m] # <<>> /\ hSid[n] # hSid[m]) =>
              /\ TurnsBy(SessionItems(store, hSid[n]), m) = <<>>
              /\ TurnsBy(hCtx[n], m) = <<>>
              /\ TurnsBy(hEvalCtx[n], m) = <<>>

\* two requests in flight at once on different sessions, each with its own
\* generation turns stored
C20_Witness ==
    /\ hPc[1] = "evaluator_run" /\ hPc[2] = "evaluator_run"
    /\ hSid[1] # hSid[2]
    /\ Len(SessionItems(store, hSid[1])) = 2
    /\ Len(SessionItems(store, hSid[2])) = 2
    /\ hEvalCtx[1] # <<>> /\ hEvalCtx[2] # <<>>

\* the requests whose turns make up a log, in log order
Writers(items) == [i \in DOMAIN items |-> items[i].by]

\* where the first turn of request x is in a log (0 if it has none there)
FirstBy(items, x) ==
    IF \E i \in DOMAIN items : items[i].by = x
    THEN CHOOSE i \in DOMAIN items :
             items[i].by = x /\ \A j \in 1..(i - 1) : items[j].by # x
    ELSE 0

\* C21: /query requests that share a session identifier are not serialized:
\* while one request is between its generation turns and its evaluation turns
\* the stage calls of another request on the same identifier go ahead, their
\* turns are appended in between, and a stage that starts afterwards runs on a
\* context that holds the other request's partial exchange.
C21_SameSessionNotSerialized ==
    \A n, m \in Requests :
        (n # m /\ hSid[n] # <<>> /\ hSid[n] = hSid[m] /\ InFlight(m)) =>
            /\ hPc[n] = "sql_agent_run" => ENABLED HttpGenReturns(n)
            /\ hPc[n] = "evaluator_run" => ENABLED HttpEvalReturns(n)
            /\ (hPc[n] = "evaluator_run" /\ hPc[m] = "evaluator_run"
                   /\ n \notin wiped /\ m \notin wiped) =>
                  /\ FirstBy(store[hSid[n]], n) > 0 /\ FirstBy(store[hSid[n]], m) > 0
                  /\ FirstBy(store[hSid[n]], m) < FirstBy(store[hSid[n]], n) =>
                        /\ TurnsBy(hEvalCtx[n], m) = Issued(m)
                        /\ FirstBy(hEvalCtx[n], m) < FirstBy(hEvalCtx[n], n)

\* a log in which the generation turns of one request lie between the
\* generation turns and the evaluation turns of another, whose evaluation
\* stage is still running on a context that held the first one's partial exchange
C21_Witness ==
    \E n, m \in Requests :
        /\ n # m /\ hSid[n] = hSid[m]
        /\ hPc[m] = "responded" /\ hPc[n] = "evaluator_run"
        /\ Writers(SessionItems(store, hSid[n])) = <<m, m, n, n, m, m>>
        /\ Writers(hEvalCtx[n]) = <<m, m, n, n>>

RECURSIVE SumVal(_)
SumVal(es) == IF es = <<>> THEN 0 ELSE Head(es).val + SumVal(Tail(es))

\* C22: if every generation call, evaluation call and wait ends (returns or
\* raises), every call of query() ends: it returns the evaluation stage's text,
\* or raises "Query failed after 3 attempts" with the last error caught; the
\* attempt index never passes 2 and the waits of one call add up to at most 6.
C22_QueryTerminates ==
    /\ [](rPc # "idle" => <>(rPc \in {"Done", "Failed"}))
    /\ [](/\ attempt \in 0..2
          /\ SumVal(Waits) <= 6
          /\ rPc = "Done" =>
                /\ trace[Len(trace)].ev = "evalReturn"
                /\ rAnswer = trace[Len(trace)].text
                /\ rError = NoError
          /\ rPc = "Failed" =>
                /\ attempt = 2
                /\ IsRaise(trace[Len(trace)])
                /\ rError.kind = "Query failed after attempts" /\ rError.n = 3
                /\ rError.cause = trace[Len(trace)].text
                /\ rError.cause = last_error)

\* a call that used all three attempts and both waits and then failed on a
\* raise of the generation stage
C22_Witness ==
    /\ rPc = "Failed"
    /\ SumVal(Waits) = 6
    /\ trace[Len(trace)].ev = "genRaise" /\ trace[Len(trace)].at = 2
    /\ rError.n = 3

====
